---- MODULE Spec2Model ----
(***************************************************************************)
(* Model of subgraph_demo: the paginated Uniswap hour-data fetcher         *)
(* (subgraph.py), the sqlite DAO (subgraph_dao.py) and the orchestrator    *)
(* with its collectors, startup barrier and chart endpoint                 *)
(* (orchestrator.py).                                                      *)
(*                                                                         *)
(* The specifications share the definitions below:                         *)
(*   SpecFetch      direct calls of fetch_uniswap_hour_datas               *)
(*   SpecFetchLive  the same against an upstream that always answers,      *)
(*                  the loop running on                                    *)
(*   Spec           the __main__ program: collector threads, barrier,      *)
(*                  clock                                                  *)
(*   SpecLive       Spec with every started thread scheduled fairly        *)
(*   SpecChart      get_chart_data over stored rows                        *)
(*   SpecDao        the upserts of SubgraphDAO on a fresh database with    *)
(*                  its id columns                                         *)
(***************************************************************************)
EXTENDS Integers, Sequences, FiniteSets, TLC

VARIABLES
    now,        \* int(time.time())
    upstream,   \* token address -> set of tokenHourDatas entities held by the subgraph
    fcall,      \* the fetch_uniswap_hour_datas call in flight (SpecFetch)
    db,         \* subgraph.db: the rows of its two tables
    pc,         \* where each thread stands: the collectors of TOKENS and "main"
    barrier,    \* SERVICE_BARRIER: parties inside wait() and whether it is releasing them
    latest_obtained_time,   \* per collector: latest_obtained_time, then new_start_time_secs
    wake,       \* per collector: the time at which time.sleep(HOUR_SECONDS) returns
    backfill_origin,        \* per collector: current_time - SEVEN_DAY_SECONDS of its backfill
    new_hour_data,          \* per collector: what its last fetch cycle returned
    utc_offset, \* the offset of the host's local time from UTC, in seconds
    response,   \* the last answer of GET /getChartData, with the request it answers
    dao_call    \* the last call of a SubgraphDAO upsert: its argument and the db before it

vars == <<now, upstream, fcall, db, pc, barrier, latest_obtained_time, wake,
          backfill_origin, new_hour_data, utc_offset, response, dao_call>>

fetchVars == <<now, upstream, fcall>>

mainVars == <<db, pc, barrier, latest_obtained_time, wake, backfill_origin, new_hour_data>>

chartVars == <<utc_offset, response>>

daoVars == <<dao_call>>

-----------------------------------------------------------------------------
(* Bounds of the model *)

\* the subgraph's page size (100 entities per query, subgraph.py:102-103), scaled down
PageCap == 2
\* timestamps of SpecFetch range over 0..MaxT
MaxT == 4
\* the value seed of an upstream entity ranges over 0..MaxVal (0: priceUSD = 0)
MaxVal == 1
\* Spec: the subgraph holds at most the last MaxHist hours of each token at start
MaxHist == 1
\* Spec: the clock advances at most MaxTicks hours
MaxTicks == 1
\* SpecChart: the value seed of a stored row ranges over 1..MaxSeed
MaxSeed == 2
\* SpecChart: time_unit_hours ranges over 0..MaxUnitHours
MaxUnitHours == 3
\* SpecDao: at most MaxCalls upserts are made
MaxCalls == 2

-----------------------------------------------------------------------------
(* Program constants *)

TOKENS == [WBTC |-> "0x2260", SHIB |-> "0x95ad", GNO |-> "0x6810"]

\* the order of TOKENS.items()
TokenOrder == <<"WBTC", "SHIB", "GNO">>

SEVEN_DAY_SECONDS == 604800

HOUR_SECONDS == 3600

TokenNames == DOMAIN TOKENS

TokenAddresses == {TOKENS[n] : n \in TokenNames}

-----------------------------------------------------------------------------
(* subgraph.py *)

\* An upstream entity with the fields of the TokenHourData dataclass. The five values
\* are derived from one seed v so that the attributes stay distinguishable (v = 1 gives
\* the first entity of test_fetch_uniswap_hour_datas_pagination; v = 0 an hour whose
\* priceUSD is 0).
TokenHourData(ts, v) ==
    [periodStartUnix |-> ts, open |-> 100 * v, close |-> 120 * v,
     high |-> 130 * v, low |-> 90 * v, priceUSD |-> 110 * v]

Last(s) == s[Len(s)]

Take(s, n) == IF Len(s) <= n THEN s ELSE SubSeq(s, 1, n)

RECURSIVE Ascending(_)
\* orderBy: periodStartUnix (ascending is the subgraph's default direction)
Ascending(S) ==
    IF S = {} THEN <<>>
    ELSE LET m == CHOOSE x \in S : \A y \in S : x.periodStartUnix <= y.periodStartUnix
         IN  <<m>> \o Ascending(S \ {m})

\* The subgraph's answer to the query of payload_template: the entities of the token
\* matching the where clause, ordered by periodStartUnix, one page of them.
tokenHourDatas(entities, periodStartUnix_gte, periodStartUnix_lt) ==
    Take(Ascending({e \in entities : /\ e.periodStartUnix >= periodStartUnix_gte
                                     /\ e.periodStartUnix < periodStartUnix_lt
                                     /\ e.priceUSD > 0}),
         PageCap)

\* curr_start restarting at the last fetched sample instead of one past it
CurrStart_NoPlusOne(fetched_data, start_inclusive_secs) ==
    IF fetched_data # <<>> THEN Last(fetched_data).periodStartUnix
    ELSE start_inclusive_secs

\* curr_start stepping over the timestamp that follows the last fetched sample
CurrStart_PlusTwo(fetched_data, start_inclusive_secs) ==
    IF fetched_data # <<>> THEN Last(fetched_data).periodStartUnix + 2
    ELSE start_inclusive_secs

\* every request starting at start_inclusive_secs again
CurrStart_NeverAdvances(fetched_data, start_inclusive_secs) == start_inclusive_secs

\* curr_start of one iteration of the while loop
CurrStart(fetched_data, start_inclusive_secs) ==
    IF fetched_data # <<>> THEN Last(fetched_data).periodStartUnix + 1
    ELSE start_inclusive_secs

\* the range checks without the comparison against the current time
RangeCheck_NoClock(start_inclusive_secs, end_exclusive_secs, time) ==
    IF start_inclusive_secs >= end_exclusive_secs THEN "ValueError"
    ELSE "ok"

\* The two range checks that precede the loop; "ok" when neither raises.
RangeCheck(start_inclusive_secs, end_exclusive_secs, time) ==
    IF start_inclusive_secs >= end_exclusive_secs THEN "ValueError"
    ELSE IF end_exclusive_secs > time THEN "ValueError"
    ELSE "ok"

\* The state of a call of fetch_uniswap_hour_datas on entry: either it has raised, or it
\* stands before the first iteration with nothing fetched and no request sent.
FetchEnter(token, start_inclusive_secs, end_exclusive_secs, time) ==
    [state |-> IF RangeCheck(start_inclusive_secs, end_exclusive_secs, time) = "ok"
               THEN "loop" ELSE "raised",
     exc |-> IF RangeCheck(start_inclusive_secs, end_exclusive_secs, time) = "ok"
             THEN "none" ELSE "ValueError",
     token |-> token,
     start_inclusive_secs |-> start_inclusive_secs,
     end_exclusive_secs |-> end_exclusive_secs,
     fetched_data |-> <<>>,
     requests |-> <<>>]

\* One iteration of the while loop: one request, the page appended, break on an empty page.
\* requests logs every query sent: its bounds and how many samples were held when it was sent.
Request(c) ==
    [periodStartUnix_gte |-> CurrStart(c.fetched_data, c.start_inclusive_secs),
     periodStartUnix_lt |-> c.end_exclusive_secs,
     held |-> Len(c.fetched_data)]

FetchIterate(c, entities) ==
    LET curr_start == CurrStart(c.fetched_data, c.start_inclusive_secs)
        hour_json_datas == tokenHourDatas(entities, curr_start, c.end_exclusive_secs)
    IN  [c EXCEPT !.fetched_data = c.fetched_data \o hour_json_datas,
                  !.requests = Append(c.requests, Request(c)),
                  !.state = IF hour_json_datas = <<>> THEN "returned" ELSE "loop"]

\* session.request(...) or .json() raising out of the loop (no handler in the function)
FetchRaise(c) ==
    [c EXCEPT !.requests = Append(c.requests, Request(c)),
              !.state = "raised", !.exc = "RequestException"]

RECURSIVE FetchLoop(_, _)
\* The while loop run to its end against an upstream that does not change meanwhile
FetchLoop(c, entities) ==
    IF c.state # "loop" THEN c ELSE FetchLoop(FetchIterate(c, entities), entities)

Idle == [state |-> "idle"]

\* the entities of the upstream that the query's where clause selects for [start, end)
InRange(entities, start, end) ==
    {e \in entities : e.periodStartUnix >= start /\ e.periodStartUnix < end /\ e.priceUSD > 0}

-----------------------------------------------------------------------------
(* subgraph_dao.py *)

\* create_tables on a fresh subgraph.db, seen without the surrogate id column: a table is
\* the set of its rows, and the id, which no statement of the program reads, is left out.
\* Spec and SpecChart run on this view of the database.
EmptyDb == [token_metadata |-> {}, token_hour_data |-> {}]

\* create_tables on a fresh subgraph.db with the id column of both tables: sqlite_sequence
\* holds the largest id AUTOINCREMENT has given out in each table. SpecDao runs on this.
create_tables ==
    [token_metadata |-> {}, token_hour_data |-> {},
     sqlite_sequence |-> [token_metadata |-> 0, token_hour_data |-> 0]]

\* the database carries the id columns
HasIds(d) == "sqlite_sequence" \in DOMAIN d

\* the dao's Token dataclass
DaoToken(name, symbol, total_supply, volume_usd, decimals) ==
    [name |-> name, symbol |-> symbol, total_supply |-> total_supply,
     volume_usd |-> volume_usd, decimals |-> decimals]

\* the dao's TokenHourData dataclass
DaoTokenHourData(token_symbol, period_start_unix, open, close, high, low, price_usd) ==
    [token_symbol |-> token_symbol, period_start_unix |-> period_start_unix,
     open |-> open, close |-> close, high |-> high, low |-> low, price_usd |-> price_usd]

\* INSERT OR REPLACE: the row in conflict on UNIQUE(symbol) is deleted, the new row
\* inserted, with the next id of the table where ids are kept
upsert_token_metadata(d, token) ==
    LET kept == {r \in d.token_metadata : r.symbol # token.symbol}
        row == [symbol |-> token.symbol, name |-> token.name,
                total_supply |-> token.total_supply, volume_usd |-> token.volume_usd,
                decimals |-> token.decimals]
    IN  IF HasIds(d)
        THEN [d EXCEPT
                 !.token_metadata =
                     kept \cup {[id |-> d.sqlite_sequence.token_metadata + 1] @@ row},
                 !.sqlite_sequence.token_metadata = @ + 1]
        ELSE [d EXCEPT !.token_metadata = kept \cup {row}]

InsertOrReplaceHour_InsertOnly(d, thd) ==
    LET row == [token_symbol |-> thd.token_symbol,
                period_start_unix |-> thd.period_start_unix, open |-> thd.open,
                close |-> thd.close, high |-> thd.high, low |-> thd.low,
                price_usd |-> thd.price_usd]
    IN  IF HasIds(d)
        THEN [d EXCEPT
                 !.token_hour_data =
                     @ \cup {[id |-> d.sqlite_sequence.token_hour_data + 1] @@ row},
                 !.sqlite_sequence.token_hour_data = @ + 1]
        ELSE [d EXCEPT !.token_hour_data = @ \cup {row}]

\* INSERT OR IGNORE: on a conflict the stored row stays and the new one is dropped
InsertOrReplaceHour_KeepOld(d, thd) ==
    IF \E r \in d.token_hour_data : /\ r.token_symbol = thd.token_symbol
                                     /\ r.period_start_unix = thd.period_start_unix
    THEN d
    ELSE InsertOrReplaceHour_InsertOnly(d, thd)

\* one row of the executemany: conflict on UNIQUE(token_symbol, period_start_unix)
InsertOrReplaceHour(d, thd) ==
    LET kept == {r \in d.token_hour_data :
                    ~(r.token_symbol = thd.token_symbol
                      /\ r.period_start_unix = thd.period_start_unix)}
        row == [token_symbol |-> thd.token_symbol,
                period_start_unix |-> thd.period_start_unix, open |-> thd.open,
                close |-> thd.close, high |-> thd.high, low |-> thd.low,
                price_usd |-> thd.price_usd]
    IN  IF HasIds(d)
        THEN [d EXCEPT
                 !.token_hour_data =
                     kept \cup {[id |-> d.sqlite_sequence.token_hour_data + 1] @@ row},
                 !.sqlite_sequence.token_hour_data = @ + 1]
        ELSE [d EXCEPT !.token_hour_data = kept \cup {row}]

RECURSIVE upsert_token_hour_data_batch(_, _)
upsert_token_hour_data_batch(d, token_hour_data_list) ==
    IF token_hour_data_list = <<>> THEN d
    ELSE upsert_token_hour_data_batch(InsertOrReplaceHour(d, Head(token_hour_data_list)),
                                      Tail(token_hour_data_list))

RECURSIVE OrderByPeriodStartUnix(_)
\* ORDER BY period_start_unix ASC
OrderByPeriodStartUnix(rows) ==
    IF rows = {} THEN <<>>
    ELSE LET m == CHOOSE x \in rows : \A y \in rows : x.period_start_unix <= y.period_start_unix
         IN  <<m>> \o OrderByPeriodStartUnix(rows \ {m})

get_token_hour_data(d, token_symbol) ==
    LET rows == OrderByPeriodStartUnix({r \in d.token_hour_data : r.token_symbol = token_symbol})
    IN  [i \in 1 .. Len(rows) |->
            DaoTokenHourData(rows[i].token_symbol, rows[i].period_start_unix, rows[i].open,
                             rows[i].close, rows[i].high, rows[i].low, rows[i].price_usd)]

None == [none |-> TRUE]

get_token_metadata(d, token_symbol) ==
    IF \E r \in d.token_metadata : r.symbol = token_symbol
    THEN LET row == CHOOSE r \in d.token_metadata : r.symbol = token_symbol
         IN  DaoToken(row.name, row.symbol, row.total_supply, row.volume_usd, row.decimals)
    ELSE None

-----------------------------------------------------------------------------
(* orchestrator.py: the collector *)

Collectors == TokenNames

Parties == Collectors \cup {"main"}

\* a barrier sized for the collectors alone
BarrierParties_NoMain == Cardinality(TokenNames)

\* a barrier sized for one party more than the program has
BarrierParties_OneTooMany == Cardinality(TokenNames) + 2

\* SERVICE_BARRIER = threading.Barrier(len(TOKENS) + 1)
BarrierParties == Cardinality(TokenNames) + 1

\* the token entity the subgraph returns to fetch_uniswap_token
UpstreamToken(token) ==
    LET n == CHOOSE n \in TokenNames : TOKENS[n] = token
    IN  [name |-> n, symbol |-> n, totalSupply |-> 1000, volumeUSD |-> 5, decimals |-> 8]

\* self.symbol of the collector of a token
Symbol(t) == UpstreamToken(TOKENS[t]).symbol

\* an __init__ that fetches the metadata and does not store it
CollectorInit_NoUpsert(d, token_address) == d

\* UniswapDataCollector.__init__ after the metadata was fetched: the upsert
CollectorInit(d, token_address) ==
    LET metadata == UpstreamToken(token_address)
    IN  upsert_token_metadata(d, DaoToken(metadata.name, metadata.symbol, metadata.totalSupply,
                                          metadata.volumeUSD, metadata.decimals))

\* the latest fetched start time, start_time_secs if no data was fetched, plus one
FetchReturn_PlusOne(fetched, start_time_secs) ==
    IF fetched # <<>> THEN Last(fetched).periodStartUnix + 1 ELSE start_time_secs

\* the latest fetched start time, 0 if no data was fetched
FetchReturn_ZeroWhenEmpty(fetched, start_time_secs) ==
    IF fetched # <<>> THEN Last(fetched).periodStartUnix ELSE 0

\* the return value of fetch_subgraph_data
FetchReturn(fetched, start_time_secs) ==
    IF fetched # <<>> THEN Last(fetched).periodStartUnix ELSE start_time_secs

\* fetch_subgraph_data indexing new_hour_data[-1] without the guard: an empty fetch raises
fetch_subgraph_data_Unguarded(d, symbol, token_address, start_time_secs, current_time, entities) ==
    LET c == FetchLoop(FetchEnter(token_address, start_time_secs, current_time, current_time),
                       entities)
    IN  [raised |-> c.state = "raised" \/ c.fetched_data = <<>>,
         db |-> d,
         new_hour_data |-> c.fetched_data,
         return |-> FetchReturn(c.fetched_data, start_time_secs)]

\* fetch_subgraph_data: the paginated fetch up to the current time, the conversion to dao
\* rows, the batch upsert and the returned start time. raised: the fetch raised and
\* nothing was stored.
fetch_subgraph_data(d, symbol, token_address, start_time_secs, current_time, entities) ==
    LET c == FetchLoop(FetchEnter(token_address, start_time_secs, current_time, current_time),
                       entities)
        fetched == c.fetched_data
        db_new_hour_data ==
            [i \in 1 .. Len(fetched) |->
                DaoTokenHourData(symbol, fetched[i].periodStartUnix, fetched[i].open,
                                 fetched[i].close, fetched[i].high, fetched[i].low,
                                 fetched[i].priceUSD)]
    IN  IF c.state = "raised"
        THEN [raised |-> TRUE, db |-> d, new_hour_data |-> <<>>, return |-> start_time_secs]
        ELSE [raised |-> FALSE,
              db |-> upsert_token_hour_data_batch(d, db_new_hour_data),
              new_hour_data |-> fetched,
              return |-> FetchReturn(fetched, start_time_secs)]

-----------------------------------------------------------------------------
(* Spec: python -m subgraph_demo.orchestrator *)

StartTime == SEVEN_DAY_SECONDS + 2 * HOUR_SECONDS + 1800

HourOf(time) == (time \div HOUR_SECONDS) * HOUR_SECONDS

\* the subgraph at start: for each token, its last k hours with trades, k in 0..MaxHist
Histories ==
    {{TokenHourData(HourOf(StartTime) - i * HOUR_SECONDS, 1) : i \in 0 .. k - 1} :
        k \in 0 .. MaxHist}

\* the state of the program's own variables before __main__ runs
InitProgram ==
    /\ db = EmptyDb
    /\ pc = [p \in Parties |-> IF p = "main" THEN "spawn" ELSE "unstarted"]
    /\ barrier = [count |-> 0, state |-> "filling"]
    /\ latest_obtained_time = [t \in Collectors |-> 0]
    /\ wake = [t \in Collectors |-> 0]
    /\ backfill_origin = [t \in Collectors |-> 0]
    /\ new_hour_data = [t \in Collectors |-> <<>>]

NoResponse == [status |-> "none"]

\* no call of the dao is on record
NoCall == [op |-> "none", calls |-> 0]

\* no request has been made to the endpoint
InitEndpoint ==
    /\ utc_offset = 0
    /\ response = NoResponse
    /\ dao_call = NoCall

\* either every token has the same trailing hours, or GNO has never traded
InitialUpstreams ==
    {[a \in TokenAddresses |-> h] : h \in Histories}
    \cup {[a \in TokenAddresses |-> IF a = TOKENS.GNO THEN {} ELSE h] : h \in Histories}

\* the tokens that trade in an hour: none, WBTC alone, or all
TradingSets == {{}, {TOKENS.WBTC}, TokenAddresses}

Init ==
    /\ now = StartTime
    /\ upstream \in InitialUpstreams
    /\ fcall = Idle
    /\ InitProgram
    /\ InitEndpoint

\* __main__: t.start() for the next token of TOKENS.items(); after the last one the loop
\* ends and main stands before SERVICE_BARRIER.wait()
Spawn(t) ==
    /\ pc["main"] = "spawn"
    /\ \E i \in 1 .. Len(TokenOrder) :
          /\ TokenOrder[i] = t
          /\ pc[t] = "unstarted"
          /\ \A j \in 1 .. i - 1 : pc[TokenOrder[j]] # "unstarted"
          /\ pc' = [pc EXCEPT ![t] = "construct",
                              !["main"] = IF i = Len(TokenOrder) THEN "barrier" ELSE "spawn"]
    /\ UNCHANGED <<fetchVars, chartVars, daoVars, db, barrier, latest_obtained_time, wake, backfill_origin,
                   new_hour_data>>

\* token_data_collect_task: collector = UniswapDataCollector(token_address)
Construct(t) ==
    /\ pc[t] = "construct"
    /\ db' = CollectorInit(db, TOKENS[t])
    /\ pc' = [pc EXCEPT ![t] = "backfill"]
    /\ UNCHANGED <<fetchVars, chartVars, daoVars, barrier, latest_obtained_time, wake, backfill_origin,
                   new_hour_data>>

\* fetch_uniswap_token or the metadata upsert raises: the thread ends in __init__
ConstructFails(t) ==
    /\ pc[t] = "construct"
    /\ pc' = [pc EXCEPT ![t] = "died_initializing"]
    /\ UNCHANGED <<fetchVars, chartVars, daoVars, db, barrier, latest_obtained_time, wake, backfill_origin,
                   new_hour_data>>

\* token_data_collect_task: the backfill of the trailing seven days
Backfill(t) ==
    /\ pc[t] = "backfill"
    /\ LET r == fetch_subgraph_data(db, Symbol(t), TOKENS[t], now - SEVEN_DAY_SECONDS, now,
                                    upstream[TOKENS[t]])
       IN  /\ ~r.raised
           /\ db' = r.db
           /\ latest_obtained_time' = [latest_obtained_time EXCEPT ![t] = r.return]
           /\ new_hour_data' = [new_hour_data EXCEPT ![t] = r.new_hour_data]
    /\ backfill_origin' = [backfill_origin EXCEPT ![t] = now - SEVEN_DAY_SECONDS]
    /\ pc' = [pc EXCEPT ![t] = "barrier"]
    /\ UNCHANGED <<fetchVars, chartVars, daoVars, barrier, wake>>

\* a request of the backfill or its upsert raises: the thread ends before the barrier
BackfillFails(t) ==
    /\ pc[t] = "backfill"
    /\ pc' = [pc EXCEPT ![t] = "died_backfilling"]
    /\ UNCHANGED <<fetchVars, chartVars, daoVars, db, barrier, latest_obtained_time, wake, backfill_origin,
                   new_hour_data>>

\* SERVICE_BARRIER.wait(): the party arrives; the last of the parties releases the barrier
BarrierArrive(p) ==
    /\ pc[p] = "barrier"
    /\ barrier.state = "filling"
    /\ barrier' = [count |-> barrier.count + 1,
                   state |-> IF barrier.count + 1 = BarrierParties
                             THEN "draining" ELSE "filling"]
    /\ pc' = [pc EXCEPT ![p] = "waiting"]
    /\ UNCHANGED <<fetchVars, chartVars, daoVars, db, latest_obtained_time, wake, backfill_origin, new_hour_data>>

\* wait() returning to a party although the barrier has not been released
BarrierLeave_NoWait(p) ==
    /\ pc[p] = "waiting"
    /\ barrier' = [count |-> barrier.count - 1, state |-> barrier.state]
    /\ pc' = [pc EXCEPT ![p] = IF p = "main" THEN "serving" ELSE "polling"]
    /\ UNCHANGED <<fetchVars, chartVars, daoVars, db, latest_obtained_time, wake, backfill_origin, new_hour_data>>

\* SERVICE_BARRIER.wait() returns: a collector goes on to poll_hourly_data, main to uvicorn.run
BarrierLeave(p) ==
    /\ pc[p] = "waiting"
    /\ barrier.state = "draining"
    /\ barrier' = [count |-> barrier.count - 1,
                   state |-> IF barrier.count - 1 = 0 THEN "filling" ELSE "draining"]
    /\ pc' = [pc EXCEPT ![p] = IF p = "main" THEN "serving" ELSE "polling"]
    /\ UNCHANGED <<fetchVars, chartVars, daoVars, db, latest_obtained_time, wake, backfill_origin, new_hour_data>>

\* poll_hourly_data: one fetch cycle, then time.sleep(HOUR_SECONDS)
PollFetch(t) ==
    /\ pc[t] = "polling"
    /\ LET r == fetch_subgraph_data(db, Symbol(t), TOKENS[t], latest_obtained_time[t], now,
                                    upstream[TOKENS[t]])
       IN  /\ ~r.raised
           /\ db' = r.db
           /\ latest_obtained_time' = [latest_obtained_time EXCEPT ![t] = r.return]
           /\ new_hour_data' = [new_hour_data EXCEPT ![t] = r.new_hour_data]
    /\ wake' = [wake EXCEPT ![t] = now + HOUR_SECONDS]
    /\ pc' = [pc EXCEPT ![t] = "sleeping"]
    /\ UNCHANGED <<fetchVars, chartVars, daoVars, barrier, backfill_origin>>

\* a request of a poll cycle or its upsert raises: nothing in poll_hourly_data or
\* token_data_collect_task catches it, the thread ends
PollFails(t) ==
    /\ pc[t] = "polling"
    /\ pc' = [pc EXCEPT ![t] = "died_polling"]
    /\ UNCHANGED <<fetchVars, chartVars, daoVars, db, barrier, latest_obtained_time, wake, backfill_origin,
                   new_hour_data>>

\* time.sleep(HOUR_SECONDS) returns
Wake(t) ==
    /\ pc[t] = "sleeping"
    /\ now >= wake[t]
    /\ pc' = [pc EXCEPT ![t] = "polling"]
    /\ UNCHANGED <<fetchVars, chartVars, daoVars, db, barrier, latest_obtained_time, wake, backfill_origin,
                   new_hour_data>>

\* An hour passes; the subgraph indexes the new hour of the tokens that trade in it.
Tick ==
    /\ now < StartTime + MaxTicks * HOUR_SECONDS
    /\ now' = now + HOUR_SECONDS
    /\ \E S \in TradingSets :
          upstream' = [a \in TokenAddresses |->
                          IF a \in S THEN upstream[a] \cup {TokenHourData(HourOf(now'), 1)}
                          ELSE upstream[a]]
    /\ UNCHANGED <<fcall, mainVars, chartVars, daoVars>>

Next ==
    \/ \E t \in Collectors :
          \/ Spawn(t)
          \/ Construct(t)
          \/ ConstructFails(t)
          \/ Backfill(t)
          \/ BackfillFails(t)
          \/ PollFetch(t)
          \/ PollFails(t)
          \/ Wake(t)
    \/ \E p \in Parties :
          \/ BarrierArrive(p)
          \/ BarrierLeave(p)
    \/ Tick

Spec == Init /\ [][Next]_vars

\* Every started thread keeps being scheduled: main goes through its start loop, a
\* collector leaves __init__ and its backfill (by returning or by raising), a party before
\* wait() calls it, and a party inside wait() returns once the barrier is released.
Fairness ==
    /\ \A t \in Collectors :
           /\ WF_vars(Spawn(t))
           /\ WF_vars(ConstructFails(t) \/ Construct(t))
           /\ WF_vars(BackfillFails(t) \/ Backfill(t))
    /\ \A p \in Parties :
           /\ WF_vars(BarrierArrive(p))
           /\ WF_vars(BarrierLeave(p))

SpecLive == Spec /\ Fairness

-----------------------------------------------------------------------------
(* orchestrator.py: the chart endpoint *)

\* str.upper() on the symbols requested
Upper(token_symbol) ==
    CASE token_symbol = "wbtc" -> "WBTC"
      [] token_symbol = "shib" -> "SHIB"
      [] OTHER -> token_symbol

\* list(range(start, stop, step)) for step > 0
PyRange(start, stop, step) ==
    IF start >= stop THEN <<>>
    ELSE [i \in 1 .. ((stop - start + step - 1) \div step) |-> start + (i - 1) * step]

SeqToSet(s) == {s[i] : i \in DOMAIN s}

\* chunk_data is a dict: keys holds its keys in insertion order, values the list of each
DictGet(dict, key) ==
    dict.values[CHOOSE i \in DOMAIN dict.keys : dict.keys[i] = key]

\* a dict that puts a new key first
DictSet_NewKeyFirst(dict, key, value) ==
    IF key \in SeqToSet(dict.keys)
    THEN [dict EXCEPT !.values[CHOOSE i \in DOMAIN dict.keys : dict.keys[i] = key] = value]
    ELSE [keys |-> <<key>> \o dict.keys, values |-> <<value>> \o dict.values]

\* dict[key] = value: a new key goes last, an old key keeps its place
DictSet(dict, key, value) ==
    IF key \in SeqToSet(dict.keys)
    THEN [dict EXCEPT !.values[CHOOSE i \in DOMAIN dict.keys : dict.keys[i] = key] = value]
    ELSE [keys |-> Append(dict.keys, key), values |-> Append(dict.values, value)]

\* the hour of a sample, whatever the bucket width
ChunkStart_Hourly(period_start_unix, time_unit_hours) == period_start_unix \div 3600

\* the bucket of a sample: period_start_unix // (3600 * time_unit_hours)
ChunkStart(period_start_unix, time_unit_hours) ==
    period_start_unix \div (3600 * time_unit_hours)

\* chunk_data starting empty: only the chunks that hold a sample come to exist
Precompute_NoSeeding(starts, time_unit_hours) == [keys |-> <<>>, values |-> <<>>]

\* The dict comprehension over range(first, last, 3600 * time_unit_hours): one empty list
\* per key, a key that comes again keeping the place of its first occurrence.
Precompute(starts, time_unit_hours) ==
    LET key == [i \in DOMAIN starts |-> ChunkStart(starts[i], time_unit_hours)]
        firsts == SelectSeq([i \in DOMAIN starts |-> i],
                            LAMBDA i : \A j \in 1 .. i - 1 : key[j] # key[i])
    IN  [keys |-> [n \in DOMAIN firsts |-> key[firsts[n]]],
         values |-> [n \in DOMAIN firsts |-> <<>>]]

\* getattr(entry, attr) always reading the open value
AttrValue_AlwaysOpen(entry, attr) == entry.open

\* getattr(entry, attr)
AttrValue(entry, attr) ==
    CASE attr = "open" -> entry.open
      [] attr = "close" -> entry.close
      [] attr = "high" -> entry.high
      [] attr = "low" -> entry.low
      [] attr = "price_usd" -> entry.price_usd

RECURSIVE GroupIntoChunks(_, _, _, _)
\* the loop that appends every entry's value to the list of its chunk
GroupIntoChunks(dict, entries, attr, time_unit_hours) ==
    IF entries = <<>> THEN dict
    ELSE LET entry == Head(entries)
             chunk_start == ChunkStart(entry.period_start_unix, time_unit_hours)
             present == IF chunk_start \in SeqToSet(dict.keys) THEN dict
                        ELSE DictSet(dict, chunk_start, <<>>)
         IN  GroupIntoChunks(
                 DictSet(present, chunk_start,
                         Append(DictGet(present, chunk_start), AttrValue(entry, attr))),
                 Tail(entries), attr, time_unit_hours)

RECURSIVE Sum(_)
Sum(values) == IF values = <<>> THEN 0 ELSE Head(values) + Sum(Tail(values))

RECURSIVE Gcd(_, _)
Gcd(a, b) == IF b = 0 THEN a ELSE Gcd(b, a % b)

\* the quotient num / den of true division, as a fraction in lowest terms
Quotient(num, den) ==
    LET g == IF num = 0 THEN den ELSE Gcd(num, den)
    IN  [num |-> num \div g, den |-> den \div g]

\* the average with 0 standing for a chunk without values
Average_ZeroForEmpty(values) ==
    IF values # <<>> THEN Quotient(Sum(values), Len(values)) ELSE Quotient(0, 1)

\* sum(values) / len(values) if values else None
Average(values) ==
    IF values # <<>> THEN Quotient(Sum(values), Len(values)) ELSE None

Pad(n, width) ==
    LET digits == ToString(n)
    IN  IF width = 4
        THEN (IF n < 10 THEN "000" ELSE IF n < 100 THEN "00" ELSE IF n < 1000 THEN "0" ELSE "")
             \o digits
        ELSE (IF n < 10 THEN "0" ELSE "") \o digits

\* the civil date of a day count since 1970-01-01 (proleptic Gregorian calendar)
CivilFromDays(days) ==
    LET z == days + 719468
        era == z \div 146097
        doe == z - era * 146097
        yoe == (doe - doe \div 1460 + doe \div 36524 - doe \div 146096) \div 365
        doy == doe - (365 * yoe + yoe \div 4 - yoe \div 100)
        mp == (5 * doy + 2) \div 153
        d == doy - (153 * mp + 2) \div 5 + 1
        m == IF mp < 10 THEN mp + 3 ELSE mp - 9
    IN  [year |-> yoe + era * 400 + (IF m <= 2 THEN 1 ELSE 0), month |-> m, day |-> d]

\* datetime.fromtimestamp(unix_time).strftime("%Y-%m-%dT%H:%M:%SZ"): the host's local
\* time, followed by a literal Z
transform_time(unix_time, offset) ==
    LET local == unix_time + offset
        date == CivilFromDays(local \div 86400)
        secs == local % 86400
    IN  Pad(date.year, 4) \o "-" \o Pad(date.month, 2) \o "-" \o Pad(date.day, 2) \o "T"
        \o Pad(secs \div 3600, 2) \o ":" \o Pad((secs % 3600) \div 60, 2) \o ":"
        \o Pad(secs % 60, 2) \o "Z"

\* the order of the attributes in hour_data_result
Attrs == <<"open", "close", "high", "low", "price_usd">>

\* attr_data of one attribute
AttrData(token_hour_data_list, attr, time_unit_hours, offset) ==
    LET chunk_data ==
            GroupIntoChunks(
                Precompute(PyRange(token_hour_data_list[1].period_start_unix,
                                   Last(token_hour_data_list).period_start_unix,
                                   3600 * time_unit_hours),
                           time_unit_hours),
                token_hour_data_list, attr, time_unit_hours)
    IN  [i \in 1 .. Len(chunk_data.keys) |->
            <<transform_time(chunk_data.keys[i] * (3600 * time_unit_hours), offset),
              attr,
              Average(chunk_data.values[i])>>]

\* get_chart_data answering a symbol without stored rows with five empty groups
get_chart_data_EmptySeries(d, token_symbol, time_unit_hours, offset) ==
    LET token_hour_data_list == get_token_hour_data(d, Upper(token_symbol))
        metadata_result == get_token_metadata(d, Upper(token_symbol))
    IN  IF time_unit_hours = 0 THEN [status |-> "500", exc |-> "ValueError"]
        ELSE [status |-> "200",
              token_metadata |-> metadata_result,
              3d_array_of_time |->
                  [a \in 1 .. Len(Attrs) |->
                      IF token_hour_data_list = <<>> THEN <<>>
                      ELSE AttrData(token_hour_data_list, Attrs[a], time_unit_hours, offset)]]

\* get_chart_data. An exception of the handler is the framework's 500 answer:
\* token_hour_data_list[0] on an empty list, range() with a step of 0.
get_chart_data(d, token_symbol, time_unit_hours, offset) ==
    LET token_hour_data_list == get_token_hour_data(d, Upper(token_symbol))
        metadata_result == get_token_metadata(d, Upper(token_symbol))
    IN  IF token_hour_data_list = <<>> THEN [status |-> "500", exc |-> "IndexError"]
        ELSE IF time_unit_hours = 0 THEN [status |-> "500", exc |-> "ValueError"]
        ELSE [status |-> "200",
              token_metadata |-> metadata_result,
              3d_array_of_time |->
                  [a \in 1 .. Len(Attrs) |->
                      AttrData(token_hour_data_list, Attrs[a], time_unit_hours, offset)]]

-----------------------------------------------------------------------------
(* SpecChart: requests to GET /getChartData over a database of stored rows *)

\* the period_start_unix of the WBTC rows a database may hold
ChartTimes == {100, 3600, 7200, 360100}

\* a stored row of a token with the values of the upstream entity of seed v
StoredRow(token_symbol, ts, v) ==
    LET e == TokenHourData(ts, v)
    IN  DaoTokenHourData(token_symbol, e.periodStartUnix, e.open, e.close, e.high, e.low,
                         e.priceUSD)

\* the batches a WBTC collector may have stored: any hours of ChartTimes, ascending
ChartBatches ==
    {OrderByPeriodStartUnix({StoredRow("WBTC", ts, f[ts]) : ts \in DOMAIN f}) :
        f \in UNION {[D -> 1 .. MaxSeed] : D \in SUBSET ChartTimes}}

\* the symbols requested
ChartSymbols == {"WBTC", "wbtc", "GNO"}

InitChart ==
    /\ now = StartTime
    /\ upstream = [a \in TokenAddresses |-> {}]
    /\ fcall = Idle
    /\ pc = [p \in Parties |-> IF p = "main" THEN "serving" ELSE "sleeping"]
    /\ barrier = [count |-> 0, state |-> "filling"]
    /\ latest_obtained_time = [t \in Collectors |-> 0]
    /\ wake = [t \in Collectors |-> 0]
    /\ backfill_origin = [t \in Collectors |-> 0]
    /\ new_hour_data = [t \in Collectors |-> <<>>]
    /\ \E batch \in ChartBatches :
          db = upsert_token_hour_data_batch(
                   upsert_token_hour_data_batch(
                       CollectorInit(CollectorInit(EmptyDb, TOKENS.WBTC), TOKENS.SHIB),
                       <<StoredRow("SHIB", 3600, 1)>>),
                   batch)
    /\ utc_offset \in {0, 19800}
    /\ response = NoResponse
    /\ dao_call = NoCall

\* GET /getChartData/{token_symbol}?time_unit_hours=... (one request in a behaviour)
ChartRequest(token_symbol, time_unit_hours) ==
    /\ response = NoResponse
    /\ response' = [request |-> [token_symbol |-> token_symbol,
                                 time_unit_hours |-> time_unit_hours],
                    answer |-> get_chart_data(db, token_symbol, time_unit_hours, utc_offset),
                    status |-> "answered"]
    /\ UNCHANGED <<fetchVars, mainVars, utc_offset, daoVars>>

NextChart ==
    \E token_symbol \in ChartSymbols, time_unit_hours \in 0 .. MaxUnitHours :
        ChartRequest(token_symbol, time_unit_hours)

SpecChart == InitChart /\ [][NextChart]_vars

-----------------------------------------------------------------------------
(* SpecDao: calls of the upserts of SubgraphDAO on a fresh subgraph.db with its id columns *)

\* the period_start_unix of the WBTC rows upserted
DaoTimes == {3600, 7200}

\* the rows a batch may hold: WBTC at two hours with any value seed, SHIB at one hour
DaoSamples ==
    {StoredRow("WBTC", ts, v) : ts \in DaoTimes, v \in 1 .. MaxSeed}
    \cup {StoredRow("SHIB", 3600, 1)}

\* the batches upserted: up to two rows in any order, the same row twice included
DaoBatches ==
    {<<>>} \cup {<<a>> : a \in DaoSamples} \cup {<<a, b>> : a, b \in DaoSamples}

\* the metadata upserted: two symbols, each with two values of total_supply
DaoTokens ==
    {DaoToken(n, n, total_supply, 5, 8) : n \in {"WBTC", "SHIB"}, total_supply \in {1000, 2000}}

InitDao ==
    /\ now = StartTime
    /\ upstream = [a \in TokenAddresses |-> {}]
    /\ fcall = Idle
    /\ db = create_tables
    /\ pc = [p \in Parties |-> IF p = "main" THEN "spawn" ELSE "unstarted"]
    /\ barrier = [count |-> 0, state |-> "filling"]
    /\ latest_obtained_time = [t \in Collectors |-> 0]
    /\ wake = [t \in Collectors |-> 0]
    /\ backfill_origin = [t \in Collectors |-> 0]
    /\ new_hour_data = [t \in Collectors |-> <<>>]
    /\ InitEndpoint

\* SubgraphDAO().upsert_token_metadata(token)
DaoUpsertTokenMetadata(token) ==
    /\ dao_call.calls < MaxCalls
    /\ db' = upsert_token_metadata(db, token)
    /\ dao_call' = [op |-> "upsert_token_metadata", token |-> token, before |-> db,
                    calls |-> dao_call.calls + 1]
    /\ UNCHANGED <<fetchVars, chartVars, pc, barrier, latest_obtained_time, wake,
                   backfill_origin, new_hour_data>>

\* SubgraphDAO().upsert_token_hour_data_batch(token_hour_data_list)
DaoUpsertTokenHourDataBatch(token_hour_data_list) ==
    /\ dao_call.calls < MaxCalls
    /\ db' = upsert_token_hour_data_batch(db, token_hour_data_list)
    /\ dao_call' = [op |-> "upsert_token_hour_data_batch",
                    token_hour_data_list |-> token_hour_data_list, before |-> db,
                    calls |-> dao_call.calls + 1]
    /\ UNCHANGED <<fetchVars, chartVars, pc, barrier, latest_obtained_time, wake,
                   backfill_origin, new_hour_data>>

NextDao ==
    \/ \E token \in DaoTokens : DaoUpsertTokenMetadata(token)
    \/ \E token_hour_data_list \in DaoBatches :
          DaoUpsertTokenHourDataBatch(token_hour_data_list)

SpecDao == InitDao /\ [][NextDao]_vars

-----------------------------------------------------------------------------
(* Properties of SubgraphDAO, checked under SpecDao *)

\* a row of token_hour_data without its id
WithoutId(r) == DaoTokenHourData(r.token_symbol, r.period_start_unix, r.open, r.close,
                                 r.high, r.low, r.price_usd)

\* the last call upserted a batch of samples each of which was already stored with the
\* same values
Reupserted ==
    /\ dao_call.op = "upsert_token_hour_data_batch"
    /\ dao_call.token_hour_data_list # <<>>
    /\ \A i \in DOMAIN dao_call.token_hour_data_list :
           \E r \in dao_call.before.token_hour_data :
               WithoutId(r) = dao_call.token_hour_data_list[i]

\* every read of get_token_hour_data answers as it did before the last call
SameReads ==
    \A token_symbol \in {"WBTC", "SHIB", "GNO"} :
        get_token_hour_data(db, token_symbol)
            = get_token_hour_data(dao_call.before, token_symbol)

SameKey(r, q) ==
    r.token_symbol = q.token_symbol /\ r.period_start_unix = q.period_start_unix

\* the sample at position i of the batch is the last one of the batch with its key
LastOfKey(batch, i) == \A j \in i + 1 .. Len(batch) : ~SameKey(batch[i], batch[j])

\* C18: after any sequence of upserts the metadata table holds at most one row per symbol
\* and the hourly table at most one row per (token_symbol, period_start_unix); the row of
\* a key written by the last call carries the values of the last write, rows of other
\* keys are untouched; get_token_hour_data answers in strictly ascending period_start_unix.
C18_OneRowPerKeyLastWriteWins ==
    /\ \A r, q \in db.token_metadata : r.symbol = q.symbol => r = q
    /\ \A r, q \in db.token_hour_data : SameKey(r, q) => r = q
    /\ \A token_symbol \in {"WBTC", "SHIB", "GNO"} :
           LET rows == get_token_hour_data(db, token_symbol)
           IN  /\ \A i \in 1 .. Len(rows) - 1 :
                      rows[i].period_start_unix < rows[i + 1].period_start_unix
               /\ \A i \in DOMAIN rows : rows[i].token_symbol = token_symbol
    /\ dao_call.op = "upsert_token_metadata" =>
           /\ get_token_metadata(db, dao_call.token.symbol) = dao_call.token
           /\ \A r \in dao_call.before.token_metadata :
                  r.symbol # dao_call.token.symbol => r \in db.token_metadata
           /\ db.token_hour_data = dao_call.before.token_hour_data
    /\ dao_call.op = "upsert_token_hour_data_batch" =>
           LET batch == dao_call.token_hour_data_list
           IN  /\ \A i \in DOMAIN batch :
                      LastOfKey(batch, i) =>
                          \E r \in db.token_hour_data : WithoutId(r) = batch[i]
               /\ \A r \in dao_call.before.token_hour_data :
                      (\A i \in DOMAIN batch : ~SameKey(r, batch[i]))
                          => r \in db.token_hour_data
               /\ \A r \in db.token_hour_data :
                      \/ r \in dao_call.before.token_hour_data
                      \/ \E i \in DOMAIN batch : WithoutId(r) = batch[i]
               /\ db.token_metadata = dao_call.before.token_metadata

\* the last call upserted a stored WBTC hour with other values, next to another stored hour
C18_Witness ==
    /\ dao_call.op = "upsert_token_hour_data_batch"
    /\ \E i \in DOMAIN dao_call.token_hour_data_list :
           \E r \in dao_call.before.token_hour_data :
               /\ SameKey(r, dao_call.token_hour_data_list[i])
               /\ WithoutId(r) # dao_call.token_hour_data_list[i]
    /\ Len(get_token_hour_data(db, "WBTC")) = 2

-----------------------------------------------------------------------------
(* Properties of the collectors and the startup barrier, checked under Spec *)

\* the collector has completed its backfill (BACKFILLING is behind it)
BackfillDone(t) ==
    pc[t] \in {"barrier", "waiting", "polling", "sleeping", "died_polling"}

\* the collector has passed the barrier and is in poll_hourly_data
InPolling(t) == pc[t] \in {"polling", "sleeping"}

\* C4: the barrier is released, and main goes on to start the API service, only when
\* every collector of TOKENS has completed its backfill.
C4_BarrierAfterAllBackfills ==
    (pc["main"] = "serving" \/ barrier.state = "draining")
    => \A t \in Collectors : BackfillDone(t)

\* main has passed the barrier while a collector that arrived is still inside wait()
C4_Witness ==
    /\ pc["main"] = "serving"
    /\ \E t \in Collectors : pc[t] = "waiting"

\* C5: a collector that has entered poll_hourly_data implies that every collector has
\* completed its backfill.
C5_PollingAfterAllBackfills ==
    (\E t \in Collectors : InPolling(t) \/ pc[t] = "died_polling")
    => \A u \in Collectors : BackfillDone(u)

\* a collector has run its first poll cycle while main is still inside wait()
C5_Witness ==
    /\ \E t \in Collectors : pc[t] = "sleeping"
    /\ pc["main"] = "waiting"

\* C6: a failed fetch cycle in POLLING is not fatal: whatever the outcome of its cycle,
\* a collector that is polling stays in poll_hourly_data (it sleeps, then fetches again).
C6_PollFailureNonFatal ==
    [][\A t \in Collectors : pc[t] = "polling" => InPolling(t)']_vars

\* C7: a backfill over a window without upstream samples is not an error: the step is
\* enabled, it stores nothing, leaves the cursor at the backfill origin, and the
\* collector can arrive at the barrier.
C7_EmptyBackfillReachesBarrier ==
    \A t \in Collectors :
        /\ (pc[t] = "backfill"
            /\ InRange(upstream[TOKENS[t]], now - SEVEN_DAY_SECONDS, now) = {})
           => ENABLED Backfill(t)
        /\ (pc[t] \in {"barrier", "waiting"} /\ new_hour_data[t] = <<>>)
           => /\ latest_obtained_time[t] = backfill_origin[t]
              /\ get_token_hour_data(db, Symbol(t)) = <<>>
        /\ pc[t] = "barrier" => ENABLED BarrierArrive(t)

\* a collector inside wait() after a backfill that found nothing
C7_Witness ==
    \E t \in Collectors :
        /\ pc[t] = "waiting"
        /\ new_hour_data[t] = <<>>
        /\ latest_obtained_time[t] = backfill_origin[t]

\* C8 as claimed: after a fetch cycle that returned samples the cursor is the last
\* sample's periodStartUnix + 1, and the backfill origin while nothing was fetched.
C8_CursorIsLastPlusOne ==
    \A t \in Collectors :
        BackfillDone(t) =>
            latest_obtained_time[t] =
                IF new_hour_data[t] # <<>>
                THEN Last(new_hour_data[t]).periodStartUnix + 1
                ELSE backfill_origin[t]

\* C8 as amended: after a fetch cycle that returned samples the cursor is the last
\* sample's periodStartUnix itself, and the backfill origin while nothing was fetched.
C8_CursorIsLast ==
    \A t \in Collectors :
        BackfillDone(t) =>
            latest_obtained_time[t] =
                IF new_hour_data[t] # <<>>
                THEN Last(new_hour_data[t]).periodStartUnix
                ELSE backfill_origin[t]

\* a collector whose poll cycle fetched an hour that its backfill had not seen
C8_Witness ==
    \E t \in Collectors :
        /\ pc[t] = "sleeping"
        /\ new_hour_data[t] # <<>>
        /\ latest_obtained_time[t] = HourOf(now)
        /\ latest_obtained_time[t] > HourOf(StartTime)

\* C15: a collector whose __init__ raised stays dead and never arrives at the barrier;
\* from then on the barrier is not released, main does not get past wait() to start the
\* API service, and no collector enters poll_hourly_data.
C15_InitFailureHangsStartup ==
    /\ [](\A t \in Collectors :
             pc[t] = "died_initializing" =>
                 /\ barrier.state = "filling"
                 /\ pc["main"] # "serving"
                 /\ \A u \in Collectors : ~InPolling(u) /\ pc[u] # "died_polling")
    /\ [][\A t \in Collectors :
              pc[t] = "died_initializing" => pc'[t] = "died_initializing"]_vars

\* one collector died in __init__; main and all the others are inside wait()
C15_Witness ==
    \E t \in Collectors :
        /\ pc[t] = "died_initializing"
        /\ pc["main"] = "waiting"
        /\ \A u \in Collectors \ {t} : pc[u] = "waiting"
        /\ barrier.count = Cardinality(Parties) - 1

\* how far a thread has come: before wait(), inside it, past it
Stage(p) ==
    CASE pc[p] \in {"unstarted", "spawn"} -> 0
      [] pc[p] = "construct" -> 1
      [] pc[p] = "backfill" -> 2
      [] pc[p] = "barrier" -> 3
      [] pc[p] = "waiting" -> 4
      [] pc[p] \in {"polling", "sleeping", "serving"} -> 5
      [] OTHER -> 6

\* a collector has died in __init__ or in its backfill (and stays dead)
StartupFailure ==
    \E t \in Collectors : pc[t] \in {"died_initializing", "died_backfilling"}

\* main has started the API service and every collector has entered poll_hourly_data
StartupComplete ==
    /\ pc["main"] = "serving"
    /\ \A t \in Collectors : InPolling(t) \/ pc[t] = "died_polling"

\* C16: unless a collector fails in __init__ or in its backfill, under fair scheduling
\* main eventually starts the API service and every collector eventually enters
\* poll_hourly_data; the barrier is released at a step at which all N+1 parties are
\* inside wait(), and no thread ever steps back, so each party waits exactly once and the
\* barrier is released exactly once.
C16_StartupCompletesOnce ==
    /\ <>(StartupComplete \/ StartupFailure)
    /\ [][/\ (barrier.state = "filling" /\ barrier'.state = "draining")
              => \A p \in Parties : pc'[p] = "waiting"
          /\ \A p \in Parties : Stage(p)' >= Stage(p)
          /\ \A p \in Parties : (Stage(p)' = 5 /\ Stage(p) # 5) => Stage(p) = 4]_vars

\* the service is up and every collector is asleep after its first poll cycle
C16_Witness ==
    /\ pc["main"] = "serving"
    /\ \A t \in Collectors : pc[t] = "sleeping"
    /\ barrier = [count |-> 0, state |-> "filling"]

\* the step is a fetch cycle of the collector: its backfill or one poll cycle
FetchCycle(t) ==
    \/ pc[t] = "backfill" /\ pc'[t] = "barrier"
    \/ pc[t] = "polling" /\ pc'[t] = "sleeping"

\* the period_start_unix of the rows stored for the collector's symbol, all of them
\* upserted by its earlier fetch cycles
StoredTimes(t) == {r.period_start_unix : r \in {x \in db.token_hour_data : x.token_symbol = Symbol(t)}}

\* C17: in every fetch cycle of a collector (its backfill and each poll cycle) the samples
\* upserted are in non-decreasing periodStartUnix order and none is earlier than a sample
\* the collector upserted before; the collector's cursor never decreases.
C17_UpsertsAndCursorMonotone ==
    [][\A t \in Collectors :
          /\ latest_obtained_time'[t] >= latest_obtained_time[t]
          /\ FetchCycle(t) =>
                 /\ \A i \in 1 .. Len(new_hour_data'[t]) - 1 :
                        new_hour_data'[t][i].periodStartUnix
                            <= new_hour_data'[t][i + 1].periodStartUnix
                 /\ \A i \in DOMAIN new_hour_data'[t] : \A ts \in StoredTimes(t) :
                        new_hour_data'[t][i].periodStartUnix >= ts
                 /\ StoredTimes(t)' = StoredTimes(t) \cup
                        {new_hour_data'[t][i].periodStartUnix : i \in DOMAIN new_hour_data'[t]}
          /\ (pc[t] = "polling" /\ pc'[t] = "sleeping") =>
                 latest_obtained_time'[t] >= backfill_origin[t]]_vars

\* a poll cycle that upserted the hour stored last again, followed by a new hour
C17_Witness ==
    \E t \in Collectors :
        /\ pc[t] = "sleeping"
        /\ Len(new_hour_data[t]) >= 2
        /\ new_hour_data[t][1].periodStartUnix = HourOf(StartTime)
        /\ latest_obtained_time[t] > HourOf(StartTime)
        /\ Cardinality(StoredTimes(t)) = 2

\* the symbols of the tokens collected
Symbols == {Symbol(t) : t \in Collectors}

\* the symbol has a row in token_metadata
HasMetadata(token_symbol) == get_token_metadata(db, token_symbol) # None

\* the symbol has at least one row in token_hour_data
HasSamples(token_symbol) == get_token_hour_data(db, token_symbol) # <<>>

\* the symbols of the rows of token_metadata
MetadataSymbols == {r.symbol : r \in db.token_metadata}

\* C21: in every reachable state a symbol with a stored hourly sample has a stored
\* metadata row, so once the API service is up a request for it is never answered with
\* a series and absent metadata; no step removes the metadata or a stored hour of a
\* symbol, and the first sample of a symbol is stored when its metadata is.
C21_SamplesImplyMetadata ==
    /\ [](\A token_symbol \in Symbols :
             /\ HasSamples(token_symbol) => HasMetadata(token_symbol)
             /\ pc["main"] = "serving" =>
                    LET answer == get_chart_data(db, token_symbol, 24, utc_offset)
                    IN  answer.status = "200" =>
                            /\ answer.token_metadata # None
                            /\ answer.token_metadata.symbol = token_symbol)
    /\ [][\A t \in Collectors :
              /\ Symbol(t) \in MetadataSymbols => Symbol(t) \in MetadataSymbols'
              /\ StoredTimes(t) \subseteq StoredTimes(t)'
              /\ (StoredTimes(t) = {} /\ StoredTimes(t)' # {})
                     => Symbol(t) \in MetadataSymbols]_vars

\* one collector has stored samples under its metadata while another has not yet run
\* its __init__ and a third has stored its metadata and no sample
C21_Witness ==
    \E t, u, v \in Collectors :
        /\ HasSamples(Symbol(t)) /\ HasMetadata(Symbol(t))
        /\ pc[u] \in {"unstarted", "construct"} /\ ~HasMetadata(Symbol(u))
        /\ HasMetadata(Symbol(v)) /\ ~HasSamples(Symbol(v))

-----------------------------------------------------------------------------
(* Properties of get_chart_data, checked under SpecChart *)

\* the request answered was for WBTC with this bucket width
AnsweredWBTC(time_unit_hours) ==
    /\ response.status = "answered"
    /\ Upper(response.request.token_symbol) = "WBTC"
    /\ response.request.time_unit_hours = time_unit_hours

StoredWBTC == get_token_hour_data(db, "WBTC")

\* the group of the open attribute in the answer
OpenGroup == response.answer.3d_array_of_time[1]

\* the scenario: WBTC rows at 100 (open 100) and 360100 (open 200), nothing between
C9_Scenario ==
    /\ AnsweredWBTC(1)
    /\ Len(StoredWBTC) = 2
    /\ StoredWBTC[1].period_start_unix = 100 /\ StoredWBTC[1].open = 100
    /\ StoredWBTC[2].period_start_unix = 360100 /\ StoredWBTC[2].open = 200

OwnValue(row, a) == <<row.open, row.close, row.high, row.low, row.price_usd>>[a]

\* the stored WBTC rows sit at consecutive whole hours
ConsecutiveHours ==
    /\ StoredWBTC # <<>>
    /\ \A i \in DOMAIN StoredWBTC : StoredWBTC[i].period_start_unix % 3600 = 0
    /\ \A i \in 1 .. Len(StoredWBTC) - 1 :
           StoredWBTC[i + 1].period_start_unix = StoredWBTC[i].period_start_unix + 3600

\* C10: with a bucket width of 1 hour over rows at consecutive whole hours, every one of
\* the five groups holds exactly one triple per stored row, in order, whose average is
\* the row's own value of the attribute.
C10_OneTriplePerSample ==
    (AnsweredWBTC(1) /\ ConsecutiveHours) =>
        /\ response.answer.status = "200"
        /\ Len(response.answer.3d_array_of_time) = 5
        /\ \A a \in 1 .. 5 :
               LET group == response.answer.3d_array_of_time[a]
               IN  /\ Len(group) = Len(StoredWBTC)
                   /\ \A i \in DOMAIN group :
                          /\ group[i][1] = transform_time(StoredWBTC[i].period_start_unix,
                                                          utc_offset)
                          /\ group[i][2] = Attrs[a]
                          /\ group[i][3] = Quotient(OwnValue(StoredWBTC[i], a), 1)

\* a width-1 request answered over two consecutive hours with different values
C10_Witness ==
    /\ AnsweredWBTC(1)
    /\ ConsecutiveHours
    /\ Len(StoredWBTC) = 2
    /\ StoredWBTC[1].open # StoredWBTC[2].open
    /\ response.answer.status = "200"

\* the bucket width of the request answered, in hours and in seconds
AnsweredUnitHours == response.request.time_unit_hours

BucketSeconds == 3600 * AnsweredUnitHours

\* floor(period_start_unix / (3600 * unit_hours)) for the width of the request answered
BucketKey(period_start_unix) == period_start_unix \div BucketSeconds

\* a WBTC request with a width of at least one hour was answered over stored samples
AnsweredOverSamples ==
    /\ response.status = "answered"
    /\ Upper(response.request.token_symbol) = "WBTC"
    /\ AnsweredUnitHours >= 1
    /\ StoredWBTC # <<>>

FirstKey == BucketKey(StoredWBTC[1].period_start_unix)

LastKey == BucketKey(StoredWBTC[Len(StoredWBTC)].period_start_unix)

\* the buckets between the first and the last sample that hold no stored sample
EmptyKeys ==
    LET stored == StoredWBTC
    IN  (FirstKey .. LastKey)
            \ {BucketKey(stored[i].period_start_unix) : i \in DOMAIN stored}

StoredOfRequest == get_token_hour_data(db, Upper(response.request.token_symbol))

\* C12: a request for a symbol without stored samples (a symbol no collector knows, or a
\* token whose metadata is stored but whose fetches found nothing) is answered with an
\* error, never with a success body.
C12_NoSamplesIsAnError ==
    (response.status = "answered" /\ StoredOfRequest = <<>>) =>
        /\ response.answer.status = "500"
        /\ "3d_array_of_time" \notin DOMAIN response.answer
        /\ "token_metadata" \notin DOMAIN response.answer

\* a request with a valid width for a token with stored metadata and no stored samples
C12_Witness ==
    /\ response.status = "answered"
    /\ response.request.time_unit_hours >= 1
    /\ StoredOfRequest = <<>>
    /\ get_token_metadata(db, Upper(response.request.token_symbol)) # None
    /\ response.answer.status = "500"

\* the stored WBTC samples of a bucket, in stored order
InBucket(k) == SelectSeq(StoredWBTC, LAMBDA r : BucketKey(r.period_start_unix) = k)

\* sum / count of the a-th attribute over the samples of a bucket
MeanOf(k, a) ==
    Quotient(Sum([i \in DOMAIN InBucket(k) |-> OwnValue(InBucket(k)[i], a)]),
             Len(InBucket(k)))

\* the buckets that hold a stored sample
OccupiedKeys == {BucketKey(StoredWBTC[i].period_start_unix) : i \in DOMAIN StoredWBTC}

\* C19: for every width of at least one hour and every non-empty stored sample set, each
\* group of the answer has exactly one triple for the bucket floor(period_start_unix /
\* (3600 * unit_hours)) of every sample, whose value is sum / count of the attribute over
\* exactly the samples with that bucket; no other triple carries a value.
C19_BucketMeans ==
    AnsweredOverSamples =>
        /\ response.answer.status = "200"
        /\ \A a \in 1 .. 5 :
               LET group == response.answer.3d_array_of_time[a]
                   occupied == OccupiedKeys
                   time == [k \in occupied |-> transform_time(k * BucketSeconds, utc_offset)]
                   At(k) == {i \in DOMAIN group : group[i][1] = time[k]}
               IN  /\ \A k \in occupied :
                          /\ Cardinality(At(k)) = 1
                          /\ \A i \in At(k) : group[i][3] = MeanOf(k, a)
                   /\ \A i \in DOMAIN group :
                          group[i][3] # None => \E k \in occupied : group[i][1] = time[k]

\* a request whose width puts two samples with different values into one bucket, next to
\* a bucket with one sample
C19_Witness ==
    /\ AnsweredOverSamples
    /\ response.answer.status = "200"
    /\ Cardinality(OccupiedKeys) >= 2
    /\ \E k \in OccupiedKeys :
           /\ Len(InBucket(k)) >= 2
           /\ InBucket(k)[1].open # InBucket(k)[2].open

\* the last sample's bucket is not reached by range(first, last, step): the grouping loop
\* inserts it
LastBucketInserted ==
    StoredWBTC[1].period_start_unix + (LastKey - FirstKey) * BucketSeconds
        >= StoredWBTC[Len(StoredWBTC)].period_start_unix

-----------------------------------------------------------------------------
(* SpecFetch: one call of fetch_uniswap_hour_datas with arbitrary arguments against an
   arbitrary upstream *)

\* every set of entities with distinct periodStartUnix in 0..MaxT-1
EntitySets(T) ==
    {{TokenHourData(ts, f[ts]) : ts \in DOMAIN f} :
        f \in UNION {[D -> 0 .. MaxVal] : D \in SUBSET T}}

TestToken == TOKENS.WBTC

InitFetch ==
    /\ now \in {MaxT - 1, MaxT}
    /\ \E E \in EntitySets(0 .. MaxT - 1) :
           upstream = [a \in TokenAddresses |-> IF a = TestToken THEN E ELSE {}]
    /\ fcall = Idle
    /\ InitProgram
    /\ InitEndpoint

Call(start, end) ==
    /\ fcall.state = "idle"
    /\ fcall' = FetchEnter(TestToken, start, end, now)
    /\ UNCHANGED <<now, upstream, mainVars, chartVars, daoVars>>

Iterate ==
    /\ fcall.state = "loop"
    /\ fcall' = FetchIterate(fcall, upstream[fcall.token])
    /\ UNCHANGED <<now, upstream, mainVars, chartVars, daoVars>>

RequestFails ==
    /\ fcall.state = "loop"
    /\ fcall' = FetchRaise(fcall)
    /\ UNCHANGED <<now, upstream, mainVars, chartVars, daoVars>>

NextFetch ==
    \/ \E start, end \in 0 .. MaxT + 1 : Call(start, end)
    \/ Iterate
    \/ RequestFails

SpecFetch == InitFetch /\ [][NextFetch]_vars

\* the call against an upstream that answers every request; the loop, once entered, keeps
\* running (nothing in the function blocks but the request itself)
NextFetchLive ==
    \/ \E start, end \in 0 .. MaxT + 1 : Call(start, end)
    \/ Iterate

SpecFetchLive == InitFetch /\ [][NextFetchLive]_vars /\ WF_vars(Iterate)

-----------------------------------------------------------------------------
(* Properties of fetch_uniswap_hour_datas, checked under SpecFetch *)

StrictlyIncreasing(s) ==
    \A i \in 1 .. Len(s) - 1 : s[i].periodStartUnix < s[i + 1].periodStartUnix

\* C1: for every valid range, the samples fetch_uniswap_hour_datas accumulates and
\* returns have strictly increasing periodStartUnix (hence no duplicates), also when
\* the range takes more than one page.
C1_StrictlyIncreasing ==
    fcall.state \in {"loop", "returned"} => StrictlyIncreasing(fcall.fetched_data)

\* a call that returned after at least two non-empty pages
C1_Witness ==
    /\ fcall.state = "returned"
    /\ Len(fcall.requests) >= 3
    /\ Len(fcall.fetched_data) > PageCap

C3_RangeErrorNoRequest ==
    (/\ fcall.state # "idle"
     /\ \/ fcall.start_inclusive_secs >= fcall.end_exclusive_secs
        \/ fcall.end_exclusive_secs > now)
    => (fcall.state = "raised" /\ fcall.exc = "ValueError" /\ fcall.requests = <<>>)

\* a call with a positive range that ends after the current time, refused
C3_Witness ==
    /\ fcall.state = "raised"
    /\ fcall.start_inclusive_secs < fcall.end_exclusive_secs
    /\ fcall.end_exclusive_secs > now
    /\ upstream[fcall.token] # {}

\* the page an iteration received: what it appended to fetched_data
PageReceived == SubSeq(fcall'.fetched_data, Len(fcall.fetched_data) + 1,
                       Len(fcall'.fetched_data))

\* C14: a call with a valid range terminates when every request is answered: each
\* iteration either receives an empty page and returns what it has, or receives samples
\* and leaves the loop with a cursor (the lower bound of the next request) beyond the last
\* sample received and beyond the cursor it had; and the loop, once entered, returns.
C14_Terminates ==
    /\ [][fcall.state = "loop" /\ fcall' # fcall =>
            \/ /\ PageReceived = <<>>
               /\ fcall'.state = "returned"
               /\ fcall'.fetched_data = fcall.fetched_data
            \/ /\ PageReceived # <<>>
               /\ fcall'.state = "loop"
               /\ Request(fcall').periodStartUnix_gte > Last(PageReceived).periodStartUnix
               /\ Request(fcall').periodStartUnix_gte > Request(fcall).periodStartUnix_gte
               /\ \A i \in DOMAIN PageReceived :
                      PageReceived[i].periodStartUnix >= Request(fcall).periodStartUnix_gte]_vars
    /\ (fcall.state = "loop") ~> (fcall.state = "returned")

\* a call that returned after receiving more than one page with samples
C14_Witness ==
    /\ fcall.state = "returned"
    /\ Len(fcall.requests) >= 3
    /\ Len(fcall.fetched_data) > PageCap

====
